---- MODULE Spec2Model ----
(***************************************************************************)
(* Tunnel lifecycle manager (skills/subcode-tunnel/scripts/tunnel.sh).     *)
(*                                                                         *)
(* The state is what the script shares between invocations: the record    *)
(* files of the state directory, the routing configuration files, the log  *)
(* files, the funnel settings of the overlay client, the DNS routes, and    *)
(* the cloudflared processes.  An invocation of the script is a record     *)
(* with a position (pc) and the locals of the function it is in.           *)
(*                                                                         *)
(* Strings are TLA+ strings; Len, SubSeq and \o are used on them.          *)
(***************************************************************************)
EXTENDS Integers, Sequences, FiniteSets, TLC

(***************************************************************************)
(* Bounds of the model.                                                    *)
(***************************************************************************)
\* Commands run in one behaviour of Spec, which has every command and launcher.
MaxCmds == 2
\* Commands run in one behaviour of SpecNamed, SpecRoute and SpecQuick.
MaxNamedCmds == 3
MaxRouteCmds == 3
MaxQuickCmds == 3
\* Commands run in one behaviour of SpecConc and of SpecStart.
MaxConcCmds == 2
MaxStartCmds == 2
\* Commands run in one behaviour of SpecOverlay.
MaxOverlayCmds == 3
MaxLiveCmds == 2
MaxPortCmds == 2
\* Commands run in one behaviour of SpecQuery.
MaxQueryCmds == 1
\* Processes spawned in one behaviour (process ids are never reused).
MaxPid == 3

(***************************************************************************)
(* Program constants.                                                      *)
(***************************************************************************)
\* find_available_port: max_port = base_port + 100
PortRange == 100
\* start_cloudflare_quick: max_wait
max_wait == 30
\* start_tailscale_funnel: funnel_port defaults to 443
DefaultFunnelPort == 443

STATE_DIR == "/home/u/.subcode/tunnels"
CLOUDFLARED_CONFIG_DIR == "/home/u/.cloudflared"

(***************************************************************************)
(* Inputs.                                                                 *)
(***************************************************************************)
\* Tunnel names a user may pass: two plain ones, one holding a double quote
\* and one starting with a dot.
PlainNames == {"web", "api"}
QuoteName == "a\"b"
DotName == ".x"
AllNames == PlainNames \cup {QuoteName, DotName}
\* Ports as the command line gives them.
AllPorts == {"3000", "8080"}
\* Values of CLOUDFLARE_TUNNEL_NAME (or of the machine name it defaults to).
AllTunnels == {"dev", "dev2"}
MachineName == "mbp"
\* Values of CLOUDFLARE_TUNNEL_DOMAIN ("" is unset).
Domain == "ex.com"
\* DNSName of the overlay client, without the trailing dot ("" is none).
TsHost == "mbp.tail.ts.net"
\* The funnel ports the overlay client serves.
FunnelPorts == {443, 8443, 10000}

\* The --method options start is run with when the name is left out.
OptNames == {"--method=tailscale", "--method=quick"}
\* Every name a record or log file may bear: the names given, and what the
\* argument loop of cmd_start makes of a command line without a name.
FileNames == AllNames \cup AllPorts \cup OptNames

Pids == 1..MaxPid
Invs == {1, 2}

NoFile == [nofile |-> TRUE]
\* a log file holding these lines
LogFile(lines) == [lines |-> lines]
NoProc == [noproc |-> TRUE]

VARIABLES
  records,   \* name -> content of STATE_DIR/<name>.json, or NoFile
  config,    \* tunnel name -> content of STATE_DIR/<tunnel>-config.yml, or NoFile
  logs,      \* name -> LogFile of STATE_DIR/<name>.log, or NoFile
  funnels,   \* funnel port -> local port it forwards to, or "off"
  dns,       \* hostnames with a DNS route
  procs,     \* pid -> running cloudflared process, or NoProc
  nextPid,   \* the next process id
  inv,       \* invocation -> position and locals
  ncmds      \* commands begun

vars == <<records, config, logs, funnels, dns, procs, nextPid, inv, ncmds>>
store == <<records, config, logs, funnels, dns, procs, nextPid>>

(***************************************************************************)
(* Strings.                                                                *)
(***************************************************************************)
\* s holds the one-character string c
HasChar(s, c) == \E k \in 1..Len(s) : SubSeq(s, k, k) = c

\* the first position >= from at which sub occurs in s, or 0
RECURSIVE IndexFrom(_, _, _)
IndexFrom(s, sub, from) ==
  IF from + Len(sub) - 1 > Len(s) THEN 0
  ELSE IF SubSeq(s, from, from + Len(sub) - 1) = sub THEN from
  ELSE IndexFrom(s, sub, from + 1)

\* s matches the regular expression lits[1].*lits[2].* ... (unanchored)
RECURSIVE MatchesInOrder(_, _, _)
MatchesInOrder(s, lits, from) ==
  IF lits = <<>> THEN TRUE
  ELSE LET at == IndexFrom(s, Head(lits), from)
       IN  at # 0 /\ MatchesInOrder(s, Tail(lits), at + Len(Head(lits)))

(***************************************************************************)
(* Record files.  A record file is written by echo with the values         *)
(* interpolated into a JSON text (lines 174, 221, 342) and read back by    *)
(* jq.  The content is kept as the interpolated values; the text parses    *)
(* when no interpolated string breaks out of its quotes.                   *)
(***************************************************************************)
EmptyFile == [empty |-> TRUE]

JsonSafe(s) == ~HasChar(s, "\"") /\ ~HasChar(s, "\\")

TailscaleRecord(name, local_port, funnel_port, url, ts_host) ==
  [method |-> "tailscale", name |-> name, local_port |-> local_port,
   funnel_port |-> funnel_port, url |-> url, ts_host |-> ts_host]

QuickRecord(name, local_port, url, pid) ==
  [method |-> "cloudflare_quick", name |-> name, local_port |-> local_port,
   url |-> url, pid |-> pid]

NamedRecord(name, local_port, url, hostname, tunnel_name, pid) ==
  [method |-> "cloudflare_named", name |-> name, local_port |-> local_port,
   url |-> url, hostname |-> hostname, tunnel_name |-> tunnel_name, pid |-> pid]

StringFields == {"name", "url", "ts_host", "hostname", "tunnel_name"}

\* jq exits 0 on the file: it is empty, or its text is valid JSON
JqParses(c) ==
  \/ c = EmptyFile
  \/ \A f \in (DOMAIN c) \cap StringFields : JsonSafe(c[f])

\* what jq -r '.<f>' prints for a file it parses
JqField(c, f) ==
  IF c = EmptyFile THEN ""
  ELSE IF f \in DOMAIN c THEN c[f] ELSE "null"

\* a file the glob STATE_DIR/*.json expands to (no dotglob: * skips dot files)
GlobJson(name) == SubSeq(name, 1, 1) # "."

(***************************************************************************)
(* Processes.                                                              *)
(***************************************************************************)
QuickProc(name, port) ==
  [kind |-> "quick", arg |-> name, port |-> port, stage |-> "forked"]
NamedProc(tunnel) ==
  [kind |-> "named", arg |-> tunnel, port |-> "", stage |-> "live"]

ConfigPath(tunnel) == STATE_DIR \o "/" \o tunnel \o "-config.yml"

\* the command line pgrep -f and pkill -f match against
Cmdline(p) ==
  IF p.kind = "quick"
  THEN "cloudflared tunnel --url http://localhost:" \o p.port
  ELSE "cloudflared tunnel --config " \o ConfigPath(p.arg) \o " run " \o p.arg

QuickUrl(pid) == "https://q" \o ToString(pid) \o ".trycloudflare.com"

\* kill <pid>: SIGTERM ends the process
Kill(ps, pid) == [q \in Pids |-> IF q = pid THEN NoProc ELSE ps[q]]

(***************************************************************************)
(* Detection (lines 36-94, 442-474).                                       *)
(***************************************************************************)
BackendStates == {"Running", "NeedsLogin", "Stopped", "error"}

\* get_machine_name: override, overlay host name, system host name
get_machine_name(override, tsInstalled, tsName, sysName) ==
  IF override # "" THEN override
  ELSE IF tsInstalled /\ tsName # "" THEN tsName
  ELSE IF sysName # "" THEN sysName
  ELSE "dev"

check_tailscale(installed, backendState) ==
  IF ~installed THEN "not_installed"
  ELSE IF backendState = "Running" THEN "ready"
  ELSE IF backendState = "NeedsLogin" THEN "needs_login"
  ELSE "not_connected"

check_cloudflare(installed, listOk) ==
  IF ~installed THEN "not_installed"
  ELSE IF listOk THEN "authenticated"
  ELSE "not_authenticated"

\* variant: the overlay method tried before the routed one
RecommendedOverlayFirst(cloudflare_status, domain, tailscale_status) ==
  IF tailscale_status = "ready" THEN "tailscale"
  ELSE IF cloudflare_status = "authenticated" /\ domain # "" THEN "cloudflare_named"
  ELSE "cloudflare_quick"

\* the "recommended" member of cmd_detect's report
Recommended(cloudflare_status, domain, tailscale_status) ==
  IF cloudflare_status = "authenticated" /\ domain # "" THEN "cloudflare_named"
  ELSE IF tailscale_status = "ready" THEN "tailscale"
  ELSE "cloudflare_quick"

\* the report cmd_detect prints
DetectReport(machine_name, tailscale_status, cloudflare_status, domain) ==
  [machine_name |-> machine_name,
   tailscale |-> [status |-> tailscale_status,
                  ready |-> (tailscale_status = "ready")],
   cloudflare |-> [status |-> cloudflare_status,
                   authenticated |-> (cloudflare_status = "authenticated"),
                   domain |-> domain],
   recommended |-> Recommended(cloudflare_status, domain, tailscale_status)]

(***************************************************************************)
(* Invocations.                                                            *)
(***************************************************************************)
NoPrev == [cmd |-> "", name |-> "", method |-> "", port |-> "", tunnel |-> "",
           rc |-> 0]

Idle ==
  [pc |-> "idle", cmd |-> "", name |-> "", port |-> "", method |-> "",
   domain |-> "", tunnel |-> "", hostname |-> "", pid |-> 0, waited |-> 0,
   url |-> "", content |-> NoFile, rc |-> 0, out |-> <<>>, had |-> FALSE,
   input |-> <<>>, temp |-> NoFile, conc |-> FALSE, err |-> "",
   cfg0 |-> NoFile, live0 |-> FALSE, killed |-> {},
   recs0 |-> [n \in FileNames |-> NoFile], prev |-> NoPrev]

Summary(v) ==
  [cmd |-> v.cmd, name |-> v.name, method |-> v.method, port |-> v.port,
   tunnel |-> v.tunnel, rc |-> v.rc]

\* the script may be run: the invocation slot is free
CanBegin(i, max) == inv[i].pc \in {"idle", "done"} /\ ncmds < max

\* the locals of a fresh run of command cmd
Fresh(i, cmd) ==
  [Idle EXCEPT !.cmd = cmd, !.recs0 = records,
               !.conc = (\E j \in Invs \ {i} : inv[j].pc \notin {"idle", "done"}),
               !.prev = IF inv[i].pc = "done" THEN Summary(inv[i]) ELSE NoPrev]

\* the script exits with status rc having printed out
Exit(v, rc, out) ==
  [v EXCEPT !.pc = "done", !.rc = rc, !.out = out, !.waited = 0,
            !.content = NoFile, !.temp = NoFile, !.cfg0 = NoFile,
            !.live0 = FALSE, !.killed = {}]

SetInv(i, v) == inv' = [inv EXCEPT ![i] = v]

(***************************************************************************)
(* stop_tunnel (lines 350-387) and cmd_stop (lines 539-548).               *)
(***************************************************************************)
\* variant: the rm taking every state file
RmEveryRecord(recs, name) == [n \in DOMAIN recs |-> NoFile]

\* rm -f "$state_file"
RmRecord(recs, name) == [recs EXCEPT ![name] = NoFile]

\* variant: a missing state file taken as an error
StopAbsentFails(v) == Exit(v, 1, <<>>)

\* lines 354-357: no state file: a warning, return 0
StopAbsent(v) == Exit(v, 0, <<>>)

\* the processes left by the teardown of a record of the quick method
StopQuickProcs(ps, c) ==
  IF JqField(c, "pid") \in Pids THEN Kill(ps, JqField(c, "pid")) ELSE ps

stop_tunnel(i, name) ==
  LET v == [Fresh(i, "stop") EXCEPT !.name = name,
                                     !.had = (records[name] # NoFile)]
      c == records[name]
  IN  IF c = NoFile
      THEN /\ SetInv(i, StopAbsent(v))
           /\ UNCHANGED store
      ELSE IF ~JqParses(c)
      THEN \* line 360: jq fails, set -e ends the script with jq's status
           /\ SetInv(i, Exit(v, 2, <<>>))
           /\ UNCHANGED store
      ELSE LET method == JqField(c, "method") IN
           /\ \E ok \in BOOLEAN :
                /\ funnels' =
                     IF method = "tailscale" /\ ok
                        /\ JqField(c, "funnel_port") \in FunnelPorts
                     THEN [funnels EXCEPT ![JqField(c, "funnel_port")] = "off"]
                     ELSE funnels
                /\ method # "tailscale" => ok
           /\ procs' = IF method = "cloudflare_quick"
                       THEN StopQuickProcs(procs, c) ELSE procs
           /\ records' = RmRecord(records, name)
           /\ SetInv(i, Exit([v EXCEPT !.method = method], 0, <<>>))
           /\ UNCHANGED <<config, logs, dns, nextPid>>

CmdStop(i, max, NS) ==
  /\ CanBegin(i, max)
  /\ ncmds' = ncmds + 1
  /\ \E name \in NS : stop_tunnel(i, name)

(***************************************************************************)
(* stop_all_tunnels (lines 390-403).                                       *)
(***************************************************************************)
\* pkill -f "cloudflared tunnel"
PkillCloudflared(ps) ==
  [q \in Pids |->
     IF ps[q] # NoProc /\ IndexFrom(Cmdline(ps[q]), "cloudflared tunnel", 1) # 0
     THEN NoProc ELSE ps[q]]

\* rm -f "$STATE_DIR"/*.json
RmAllRecords(recs) ==
  [n \in DOMAIN recs |-> IF GlobJson(n) THEN NoFile ELSE recs[n]]

stop_all_tunnels(i) ==
  \E resetOk \in BOOLEAN, pkillOk \in BOOLEAN :
    /\ funnels' = IF resetOk THEN [fp \in FunnelPorts |-> "off"] ELSE funnels
    /\ procs' = IF pkillOk THEN PkillCloudflared(procs) ELSE procs
    /\ records' = RmAllRecords(records)
    /\ SetInv(i, Exit(Fresh(i, "stop-all"), 0, <<>>))
    /\ UNCHANGED <<config, logs, dns, nextPid>>

CmdStopAll(i, max) ==
  /\ CanBegin(i, max)
  /\ ncmds' = ncmds + 1
  /\ stop_all_tunnels(i)

(***************************************************************************)
(* list_tunnels (lines 405-436).                                           *)
(***************************************************************************)
\* the order in which the glob of line 412 gives the state files (that of
\* the bytes of their names)
GlobOrder ==
  <<"--method=quick", "--method=tailscale", DotName, "3000", "8080",
    QuoteName, "api", "web">>

\* lines 416-419, 421-425: what is printed for one state file
ListEntry(c) ==
  [name |-> JqField(c, "name"), method |-> JqField(c, "method"),
   local_port |-> JqField(c, "local_port"), url |-> JqField(c, "url")]

\* the loop of lines 412-426 from the k-th name on: the entries printed and
\* the status; a jq that fails ends the script (set -e)
RECURSIVE ListFrom(_, _)
ListFrom(k, recs) ==
  IF k > Len(GlobOrder) THEN [rc |-> 0, out |-> <<>>]
  ELSE LET c == recs[GlobOrder[k]] IN
       IF c = NoFile \/ ~GlobJson(GlobOrder[k]) THEN ListFrom(k + 1, recs)
       ELSE IF ~JqParses(c) THEN [rc |-> 2, out |-> <<>>]
       ELSE LET r == ListFrom(k + 1, recs)
            IN  [rc |-> r.rc, out |-> <<ListEntry(c)>> \o r.out]

list_tunnels(i) ==
  /\ SetInv(i, Exit(Fresh(i, "list"), ListFrom(1, records).rc,
                    ListFrom(1, records).out))
  /\ UNCHANGED store

CmdList(i, max) ==
  /\ CanBegin(i, max)
  /\ ncmds' = ncmds + 1
  /\ list_tunnels(i)

(***************************************************************************)
(* cmd_start (lines 476-537).                                              *)
(***************************************************************************)
IsMethodOpt(a) == Len(a) >= 9 /\ SubSeq(a, 1, 9) = "--method="
MethodOf(a) == SubSeq(a, 10, Len(a))

\* the option loop of lines 482-497 over the arguments left
RECURSIVE ParseLoop(_, _)
ParseLoop(args, st) ==
  IF args = <<>> THEN st
  ELSE LET a == Head(args) IN
       ParseLoop(Tail(args),
         IF IsMethodOpt(a) THEN [st EXCEPT !.method = MethodOf(a)]
         ELSE IF st.port = "" THEN [st EXCEPT !.port = a]
         ELSE IF st.name = "" THEN [st EXCEPT !.name = a]
         ELSE st)

\* port, name and method as cmd_start has them at line 499
ParseStart(args) ==
  ParseLoop(args, [port |-> IF Len(args) >= 1 THEN args[1] ELSE "",
                   name |-> IF Len(args) >= 2 THEN args[2] ELSE "",
                   method |-> ""])

\* line 505
DefaultName(name, port) == IF name # "" THEN name ELSE "app-" \o port

\* the launcher the case of lines 521-536 runs, "" for none
Launcher(method) ==
  IF method = "tailscale" THEN "ts"
  ELSE IF method \in {"cloudflare", "cloudflare_named"} THEN "named"
  ELSE IF method \in {"cloudflare_quick", "quick"} THEN "quick"
  ELSE ""

Hostname(name, machine_name, domain) ==
  name \o "-" \o machine_name \o "." \o domain

\* variant: the recommendation taken whatever the option says
MethodDetected(opt, detected) == detected

\* lines 508-513: the method of the option, or else the recommended one
MethodUsed(opt, detected) == IF opt = "" THEN detected ELSE opt

cmd_start(i, args, domain, tunnel, detected) ==
  LET a == ParseStart(args)
      name == DefaultName(a.name, a.port)
      method == MethodUsed(a.method, detected)
      v == [Fresh(i, "start") EXCEPT
              !.name = name, !.port = a.port, !.method = method,
              !.input = <<args, detected>>,
              !.domain = domain, !.tunnel = tunnel,
              !.hostname = Hostname(name, MachineName, domain)]
  IN  /\ name \in FileNames
      /\ Launcher(method) \in {"named", "quick"} => nextPid <= MaxPid
      /\ IF a.port = "" \/ Launcher(method) = ""
         THEN SetInv(i, Exit(v, 1, <<>>))
         ELSE \* cfg0, live0: the configuration file of the tunnel as the call
              \* finds it, and whether a process runs the tunnel then
              SetInv(i, [v EXCEPT !.pc = Launcher(method),
                   !.cfg0 = IF Launcher(method) = "named" THEN config[tunnel]
                            ELSE NoFile,
                   !.live0 = /\ Launcher(method) = "named"
                             /\ \E q \in Pids : procs[q] = NamedProc(tunnel)])
      /\ UNCHANGED store

\* a run of start with its arguments and environment drawn from the sets given
CmdStart(i, max, ARGS, DS, TS) ==
  /\ CanBegin(i, max)
  /\ ncmds' = ncmds + 1
  /\ \E args \in ARGS, domain \in DS, tunnel \in TS :
       IF ParseStart(args).method # ""
       THEN cmd_start(i, args, domain, tunnel, "")
       ELSE \E tsI \in BOOLEAN, bs \in BackendStates,
               cfI \in BOOLEAN, cfL \in BOOLEAN :
              cmd_start(i, args, domain, tunnel,
                        Recommended(check_cloudflare(cfI, cfL), domain,
                                    check_tailscale(tsI, bs)))

(***************************************************************************)
(* The state write of lines 174, 221 and 342: echo ... > file opens the    *)
(* file truncating it, then writes the text.                               *)
(***************************************************************************)
SaveTruncate(i) ==
  /\ inv[i].pc = "save"
  /\ records' = [records EXCEPT ![inv[i].name] = EmptyFile]
  /\ SetInv(i, [inv[i] EXCEPT !.pc = "save2"])
  /\ UNCHANGED <<config, logs, funnels, dns, procs, nextPid, ncmds>>

SaveWrite(i) ==
  /\ inv[i].pc = "save2"
  /\ records' = [records EXCEPT ![inv[i].name] = inv[i].content]
  /\ SetInv(i, Exit(inv[i], 0, <<inv[i].url>>))
  /\ UNCHANGED <<config, logs, funnels, dns, procs, nextPid, ncmds>>

(***************************************************************************)
(* start_tailscale_funnel (lines 150-183).                                 *)
(***************************************************************************)
FunnelUrl(ts_host, funnel_port) ==
  IF funnel_port # 443
  THEN "https://" \o ts_host \o ":" \o ToString(funnel_port)
  ELSE "https://" \o ts_host

start_tailscale_funnel(i, funnel_port) ==
  /\ inv[i].pc = "ts"
  /\ \E ts_host \in {"", TsHost}, funnelOk \in BOOLEAN :
       LET v == inv[i]
           url == FunnelUrl(ts_host, funnel_port)
       IN  IF ts_host = "" \/ ~funnelOk
           THEN /\ ts_host = "" => funnelOk
                /\ SetInv(i, Exit(v, 1, <<>>))
                /\ UNCHANGED funnels
           ELSE /\ funnels' = [funnels EXCEPT ![funnel_port] = v.port]
                /\ SetInv(i, [v EXCEPT !.pc = "save", !.url = url,
                     !.content = TailscaleRecord(v.name, v.port, funnel_port,
                                                 url, ts_host)])
  /\ UNCHANGED <<records, config, logs, dns, procs, nextPid, ncmds>>

(***************************************************************************)
(* start_cloudflare_quick (lines 186-226).                                 *)
(***************************************************************************)
IsQuickUrl(line) ==
  /\ Len(line) >= 8 /\ SubSeq(line, 1, 8) = "https://"
  /\ IndexFrom(line, ".trycloudflare.com", 9) # 0

\* grep -o ... "$log_file" | head -1
GrepUrl(lines) ==
  LET hits == SelectSeq(lines, IsQuickUrl)
  IN  IF hits = <<>> THEN "" ELSE Head(hits)

\* line 194: cloudflared is put in the background, pid=$!
QuickSpawn(i) ==
  /\ inv[i].pc = "quick"
  /\ nextPid <= MaxPid
  /\ procs' = [procs EXCEPT ![nextPid] = QuickProc(inv[i].name, inv[i].port)]
  /\ nextPid' = nextPid + 1
  /\ SetInv(i, [inv[i] EXCEPT !.pc = "q_poll", !.pid = nextPid, !.waited = 0])
  /\ UNCHANGED <<records, config, logs, funnels, dns, ncmds>>

\* variant: a loop condition that admits one pass more
LoopGoesOneMore(waited) == waited <= max_wait

\* line 202: while [[ $waited -lt $max_wait ]]
LoopGoes(waited) == waited < max_wait

\* the url one pass of the loop of lines 202-211 finds ("" for none)
PollUrl(log) == IF log # NoFile THEN GrepUrl(log.lines) ELSE ""

\* one pass of the loop: the url is found, or a second is slept
QuickPoll(i) ==
  /\ inv[i].pc = "q_poll"
  /\ LoopGoes(inv[i].waited)
  /\ LET v == inv[i]
         url == PollUrl(logs[v.name])
     IN  IF url # ""
         THEN SetInv(i, [v EXCEPT !.pc = "save", !.url = url, !.waited = 0,
                !.content = QuickRecord(v.name, v.port, url, v.pid)])
         ELSE SetInv(i, [v EXCEPT !.waited = v.waited + 1])
  /\ UNCHANGED <<store, ncmds>>

\* variant: giving up without the kill
QuickGiveUpNoKill(ps, pid) == ps

\* the processes left when the launcher gives up (line 214)
QuickGiveUpProcs(ps, pid) == Kill(ps, pid)

\* lines 213-218: no url after max_wait passes
QuickGiveUp(i) ==
  /\ inv[i].pc = "q_poll"
  /\ ~LoopGoes(inv[i].waited)
  /\ procs' = QuickGiveUpProcs(procs, inv[i].pid)
  /\ SetInv(i, Exit(inv[i], 1, <<>>))
  /\ UNCHANGED <<records, config, logs, funnels, dns, nextPid, ncmds>>

(***************************************************************************)
(* The cloudflared processes the launchers put in the background.         *)
(***************************************************************************)
\* the job of line 194 opens its log (> "$log_file") before cloudflared runs
ProcOpenLog(p) ==
  /\ procs[p] # NoProc /\ procs[p].kind = "quick" /\ procs[p].stage = "forked"
  /\ logs' = [logs EXCEPT ![procs[p].arg] = LogFile(<<>>)]
  /\ procs' = [procs EXCEPT ![p].stage = "open"]
  /\ UNCHANGED <<records, config, funnels, dns, nextPid, inv, ncmds>>

\* the quick tunnel prints its url to its log
ProcPrintUrl(p) ==
  /\ procs[p] # NoProc /\ procs[p].kind = "quick" /\ procs[p].stage = "open"
  /\ logs[procs[p].arg] # NoFile
  /\ logs' = [logs EXCEPT ![procs[p].arg] = LogFile(Append(@.lines, QuickUrl(p)))]
  /\ procs' = [procs EXCEPT ![p].stage = "printed"]
  /\ UNCHANGED <<records, config, funnels, dns, nextPid, inv, ncmds>>

\* a process ends of itself
ProcExit(p) ==
  /\ procs[p] # NoProc
  /\ procs' = [procs EXCEPT ![p] = NoProc]
  /\ UNCHANGED <<records, config, logs, funnels, dns, nextPid, inv, ncmds>>

(***************************************************************************)
(* start_cloudflare_named (lines 229-347).                                 *)
(***************************************************************************)
Rule(hostname, local_port) ==
  [hostname |-> hostname, service |-> "http://localhost:" \o local_port]
CatchAll == [service |-> "http_status:404"]

HasHostname(r, hostname) == "hostname" \in DOMAIN r /\ r.hostname = hostname

\* lines 303-311: no configuration file yet
FreshConfig(tunnel_name, hostname, local_port) ==
  [tunnel |-> tunnel_name, ingress |-> <<Rule(hostname, local_port), CatchAll>>]

\* variant: the rule added without the del before it
YqDelNone(cfg, hostname) == cfg

\* line 287: yq eval "del(.ingress[] | select(.hostname == \"$hostname\"))"
YqDel(cfg, hostname) ==
  [cfg EXCEPT !.ingress = SelectSeq(@, LAMBDA r : ~HasHostname(r, hostname))]

\* line 288: yq eval ".ingress = [{...}] + .ingress"
YqPrepend(cfg, hostname, local_port) ==
  [cfg EXCEPT !.ingress = <<Rule(hostname, local_port)>> \o @]

\* lines 292-299: the file is written anew with the one rule
RebuildConfig(tunnel_name, hostname, local_port) ==
  [tunnel |-> tunnel_name, ingress |-> <<Rule(hostname, local_port)>>]

\* the yq expressions of lines 287-288 hold the hostname between double quotes
YqExprParses(hostname) == JsonSafe(hostname)

\* lines 237-276: domain, tunnel resource, DNS route, credentials file
NamedPrepare(i) ==
  /\ inv[i].pc = "named"
  /\ LET v == inv[i] IN
     \E tunnelOk \in BOOLEAN, routeOk \in BOOLEAN, credsOk \in BOOLEAN :
       IF v.domain = "" \/ ~tunnelOk
       THEN \* lines 237-264
            /\ routeOk /\ credsOk
            /\ v.domain = "" => tunnelOk
            /\ SetInv(i, Exit([v EXCEPT !.err = IF v.domain = "" THEN "domain"
                                                ELSE "tunnel"], 1, <<>>))
            /\ UNCHANGED dns
       ELSE \* lines 267-276: the route is asked for, then the file is looked up
            /\ dns' = IF routeOk THEN dns \cup {v.hostname} ELSE dns
            /\ IF credsOk
               THEN SetInv(i, [v EXCEPT !.pc = "n_config"])
               ELSE \* line 274: "Credentials file not found"
                    SetInv(i, Exit([v EXCEPT !.err = "creds"], 1, <<>>))
  /\ UNCHANGED <<records, config, logs, funnels, procs, nextPid, ncmds>>

\* lines 278-312 but line 288: the configuration file is created, rebuilt,
\* or read by yq into the temporary file without the rule of the hostname
NamedConfig(i) ==
  /\ inv[i].pc = "n_config"
  /\ LET v == inv[i]
         old == config[v.tunnel]
     IN  IF old = NoFile
         THEN /\ config' = [config EXCEPT
                   ![v.tunnel] = FreshConfig(v.tunnel, v.hostname, v.port)]
              /\ SetInv(i, [v EXCEPT !.pc = "n_restart"])
         ELSE \E yq \in BOOLEAN :
                IF yq /\ ~YqExprParses(v.hostname)
                THEN \* yq fails, set -e ends the script
                     /\ SetInv(i, Exit(v, 1, <<>>))
                     /\ UNCHANGED config
                ELSE IF yq
                THEN \* line 287
                     /\ SetInv(i, [v EXCEPT !.pc = "n_config2",
                                            !.temp = YqDel(old, v.hostname)])
                     /\ UNCHANGED config
                ELSE \* lines 292-299
                     /\ config' = [config EXCEPT ![v.tunnel] =
                          RebuildConfig(v.tunnel, v.hostname, v.port)]
                     /\ SetInv(i, [v EXCEPT !.pc = "n_restart"])
  /\ UNCHANGED <<records, logs, funnels, dns, procs, nextPid, ncmds>>

\* line 288: yq writes the configuration file from the temporary file with
\* the rule of the hostname put first
NamedConfigWrite(i) ==
  /\ inv[i].pc = "n_config2"
  /\ LET v == inv[i] IN
       /\ config' = [config EXCEPT
            ![v.tunnel] = YqPrepend(v.temp, v.hostname, v.port)]
       /\ SetInv(i, [v EXCEPT !.pc = "n_restart", !.temp = NoFile])
  /\ UNCHANGED <<records, logs, funnels, dns, procs, nextPid, ncmds>>

\* line 316: pgrep -f "cloudflared.*tunnel.*run.*$tunnel_name"
Pgrep(ps, tunnel_name) ==
  {q \in Pids : ps[q] # NoProc /\
     MatchesInOrder(Cmdline(ps[q]),
                    <<"cloudflared", "tunnel", "run", tunnel_name>>, 1)}

\* line 321: kill "$existing_pid" with the pids pgrep printed, one a line, as
\* one argument; kill takes it when it is one pid
KillExisting(ps, existing) ==
  IF Cardinality(existing) = 1
  THEN Kill(ps, CHOOSE q \in existing : TRUE)
  ELSE ps

\* lines 314-323: a running tunnel is ended so that the new one reads the file
NamedRestart(i) ==
  /\ inv[i].pc = "n_restart"
  /\ procs' = KillExisting(procs, Pgrep(procs, inv[i].tunnel))
  /\ SetInv(i, [inv[i] EXCEPT !.pc = "n_spawn",
       !.killed = {procs[q].arg : q \in {r \in Pids : procs[r] # procs'[r]}}])
  /\ UNCHANGED <<records, config, logs, funnels, dns, nextPid, ncmds>>

\* lines 326-328: cloudflared is put in the background, pid=$!
NamedSpawn(i) ==
  /\ inv[i].pc = "n_spawn"
  /\ nextPid <= MaxPid
  /\ procs' = [procs EXCEPT ![nextPid] = NamedProc(inv[i].tunnel)]
  /\ nextPid' = nextPid + 1
  /\ SetInv(i, [inv[i] EXCEPT !.pc = "n_check", !.pid = nextPid])
  /\ UNCHANGED <<records, config, logs, funnels, dns, ncmds>>

\* variant: the spawned process taken as alive without a look
AliveUnchecked(ps, pid) == TRUE

\* line 333: kill -0 "$pid"
Alive(ps, pid) == ps[pid] # NoProc

\* lines 331-339: after the settle time the process is looked for
NamedCheck(i) ==
  /\ inv[i].pc = "n_check"
  /\ LET v == inv[i]
         url == "https://" \o v.hostname
     IN  IF ~Alive(procs, v.pid)
         THEN \* line 334: "Failed to start cloudflared tunnel"
              SetInv(i, Exit([v EXCEPT !.err = "launch"], 1, <<>>))
         ELSE SetInv(i, [v EXCEPT !.pc = "save", !.url = url,
                !.content = NamedRecord(v.name, v.port, url, v.hostname,
                                        v.tunnel, v.pid)])
  /\ UNCHANGED <<store, ncmds>>

(***************************************************************************)
(* find_available_port (lines 131-147) and cmd_find_port (lines 558-561).  *)
(* ssBusy are the ports the socket table is seen to hold (ss | grep        *)
(* succeeds), lsofBusy those lsof finds open.                              *)
(***************************************************************************)
\* variant: a port taken as free when either listing misses it
PortFreeEither(port, ssBusy, lsofBusy) ==
  port \notin ssBusy \/ port \notin lsofBusy

\* variant: a port handed out by a finished find-port counts as taken
PortFreeReserving(port, ssBusy, lsofBusy) ==
  /\ port \notin ssBusy /\ port \notin lsofBusy
  /\ \A j \in Invs : ~(inv[j].pc = "done" /\ inv[j].cmd = "find-port"
                        /\ inv[j].out = <<port>>)

\* the test of lines 137-138: the port is taken as free
PortFree(port, ssBusy, lsofBusy) == port \notin ssBusy /\ port \notin lsofBusy

\* the loop of lines 136-143 from port on; 0 is return 1
RECURSIVE ScanPorts(_, _, _, _)
ScanPorts(port, max_port, ssBusy, lsofBusy) ==
  IF ~(port < max_port) THEN 0
  ELSE IF PortFree(port, ssBusy, lsofBusy) THEN port
  ELSE ScanPorts(port + 1, max_port, ssBusy, lsofBusy)

find_available_port(base_port, ssBusy, lsofBusy) ==
  ScanPorts(base_port, base_port + PortRange, ssBusy, lsofBusy)

\* line 559: base_port="${1:-3000}"
BasePort(args) == IF args = <<>> THEN 3000 ELSE args[1]

\* lines 558-561: the command begins with its base port
cmd_find_port(i, args) ==
  /\ SetInv(i, [Fresh(i, "find-port") EXCEPT !.pc = "fp_scan",
                                              !.input = <<BasePort(args)>>])
  /\ UNCHANGED store

\* the busy ports tried, as offsets from the base: runs from the base, and
\* scattered ports
BusyOffsets ==
  {0..(k - 1) : k \in {0, 1, 2, PortRange - 1, PortRange, PortRange + 1}}
    \cup {{1}, {0, 2}, {PortRange - 1}, 1..(PortRange - 1), {0 - 1, PortRange}}

\* a few of them, for runs side by side
NearOffsets == {{}, {0}, {1}, {0, 1}}

BusySets(base, OFFS) == {{base + o : o \in offs} : offs \in OFFS}

CmdFindPort(i, max) ==
  /\ CanBegin(i, max)
  /\ ncmds' = ncmds + 1
  /\ \E args \in {<<>>, <<3000>>, <<8080>>} : cmd_find_port(i, args)

\* lines 136-146: the scan against what ss and lsof show, and the exit
FindPortScan(i, OFFS) ==
  /\ inv[i].pc = "fp_scan"
  /\ LET v == inv[i]
         base == v.input[1]
     IN  \E ssBusy \in BusySets(base, OFFS), lsofBusy \in BusySets(base, OFFS) :
           LET found == find_available_port(base, ssBusy, lsofBusy)
               w == [v EXCEPT !.input = <<base, ssBusy, lsofBusy>>]
           IN  SetInv(i, IF found = 0 THEN Exit(w, 1, <<>>)
                         ELSE Exit(w, 0, <<found>>))
  /\ UNCHANGED <<store, ncmds>>

(***************************************************************************)
(* cmd_detect (lines 442-474).                                             *)
(***************************************************************************)
cmd_detect(i, machine_name, tailscale_status, cloudflare_status, domain) ==
  /\ SetInv(i, Exit(Fresh(i, "detect"), 0,
          <<DetectReport(machine_name, tailscale_status, cloudflare_status,
                         domain)>>))
  /\ UNCHANGED store

CmdDetect(i, max) ==
  /\ CanBegin(i, max)
  /\ ncmds' = ncmds + 1
  /\ \E override \in {"", "box"}, tsName \in {"", "ts-mbp"}, sysName \in {"", "mbp"},
        tsI \in BOOLEAN, bs \in BackendStates, cfI \in BOOLEAN, cfL \in BOOLEAN,
        domain \in {"", Domain} :
       cmd_detect(i, get_machine_name(override, tsI, tsName, sysName),
                  check_tailscale(tsI, bs), check_cloudflare(cfI, cfL), domain)

(***************************************************************************)
(* Specifications.                                                         *)
(***************************************************************************)
Init ==
  /\ records = [n \in FileNames |-> NoFile]
  /\ config = [t \in AllTunnels |-> NoFile]
  /\ logs = [n \in FileNames |-> NoFile]
  /\ funnels = [fp \in FunnelPorts |-> "off"]
  /\ dns = {}
  /\ procs = [q \in Pids |-> NoProc]
  /\ nextPid = 1
  /\ inv = [i \in Invs |-> Idle]
  /\ ncmds = 0

\* the arguments of start <port> <name> --method=<m>
StartArgs(PS, NS, MS) ==
  {<<p, n, "--method=" \o m>> : p \in PS, n \in NS, m \in MS}

QuickStep(i) == QuickSpawn(i) \/ QuickPoll(i) \/ QuickGiveUp(i)

NamedStep(i) ==
  \/ NamedPrepare(i)
  \/ NamedConfig(i)
  \/ NamedConfigWrite(i)
  \/ NamedRestart(i)
  \/ NamedSpawn(i)
  \/ NamedCheck(i)

SaveStep(i) == SaveTruncate(i) \/ SaveWrite(i)

QuickProcStep == \E p \in Pids : ProcOpenLog(p) \/ ProcPrintUrl(p)

ProcExitStep == \E p \in Pids : ProcExit(p)

\* Spec: every command that changes the state, every launcher, one invocation
\* at a time.
SpecNames == {"web", QuoteName, DotName}
SpecArgs ==
  StartArgs({"3000"}, SpecNames, {"tailscale"})
    \cup StartArgs({"3000"}, {"web", QuoteName}, {"cloudflare"})
    \cup StartArgs({"3000"}, {"web"}, {"quick"})
    \cup {<<"3000", "web", "--method=bogus">>, <<"3000", "web">>}

Next ==
  \/ CmdStart(1, MaxCmds, SpecArgs, {"", Domain}, {"dev"})
  \/ CmdStop(1, MaxCmds, SpecNames)
  \/ CmdStopAll(1, MaxCmds)
  \/ start_tailscale_funnel(1, DefaultFunnelPort)
  \/ QuickStep(1)
  \/ NamedStep(1)
  \/ SaveStep(1)
  \/ QuickProcStep
  \/ ProcExitStep

Spec == Init /\ [][Next]_vars

\* SpecNamed: the routed launcher alone, on two tunnel resources.
NamedArgs == StartArgs(AllPorts, PlainNames, {"cloudflare"})

NextNamed ==
  \/ CmdStart(1, MaxNamedCmds, NamedArgs, {"", Domain}, AllTunnels)
  \/ CmdStop(1, MaxNamedCmds, PlainNames)
  \/ NamedStep(1)
  \/ SaveStep(1)
  \/ ProcExitStep

SpecNamed == Init /\ [][NextNamed]_vars

\* SpecRoute: the routed launcher alone, on one tunnel resource.
NextRoute ==
  \/ CmdStart(1, MaxRouteCmds, NamedArgs, {"", Domain}, {"dev"})
  \/ CmdStop(1, MaxRouteCmds, PlainNames)
  \/ NamedStep(1)
  \/ SaveStep(1)
  \/ ProcExitStep

SpecRoute == Init /\ [][NextRoute]_vars

\* SpecQuick: the quick launcher alone.
QuickArgs == StartArgs(AllPorts, {"web"}, {"cloudflare_quick"})

NextQuick ==
  \/ CmdStart(1, MaxQuickCmds, QuickArgs, {""}, {"dev"})
  \/ CmdStop(1, MaxQuickCmds, {"web"})
  \/ CmdStopAll(1, MaxQuickCmds)
  \/ QuickStep(1)
  \/ SaveStep(1)
  \/ QuickProcStep
  \/ ProcExitStep

SpecQuick == Init /\ [][NextQuick]_vars

\* SpecQuickLive: the quick launcher as a running script. The script is a
\* foreground shell process, so a step of it that is possible is taken in the
\* end (weak fairness of its own steps); nothing is assumed of cloudflared,
\* which may print its url, stay silent or end at any time.
NextQuickLive ==
  \/ CmdStart(1, MaxLiveCmds, QuickArgs, {""}, {"dev"})
  \/ QuickStep(1)
  \/ SaveStep(1)
  \/ QuickProcStep
  \/ ProcExitStep

SpecQuickLive ==
  Init /\ [][NextQuickLive]_vars /\ WF_vars(QuickStep(1)) /\ WF_vars(SaveStep(1))

\* SpecConc: two invocations of the script at once, on the routed launcher
\* and one tunnel resource.
ConcArgs == StartArgs({"3000"}, PlainNames, {"cloudflare"})

NextConc ==
  \/ \E i \in Invs :
       \/ CmdStart(i, MaxConcCmds, ConcArgs, {Domain}, {"dev"})
       \/ CmdStop(i, MaxConcCmds, PlainNames)
       \/ NamedStep(i)
       \/ SaveStep(i)
  \/ ProcExitStep

SpecConc == Init /\ [][NextConc]_vars

\* SpecStart: start alone, with and without a name and a method.
StartForms ==
  {<<"3000">>, <<"3000", "--method=quick">>, <<"3000", "--method=tailscale">>,
   <<"3000", "web">>, <<"3000", "web", "--method=cloudflare">>}

NextStart ==
  \/ CmdStart(1, MaxStartCmds, StartForms, {"", Domain}, {"dev"})
  \/ start_tailscale_funnel(1, DefaultFunnelPort)
  \/ QuickStep(1)
  \/ NamedStep(1)
  \/ SaveStep(1)
  \/ QuickProcStep
  \/ ProcExitStep

SpecStart == Init /\ [][NextStart]_vars

\* SpecOverlay: the overlay launcher alone, with stop and list.
OverlayNames == {"web", "api", DotName}
OverlayArgs == StartArgs(AllPorts, OverlayNames, {"tailscale"})

NextOverlay ==
  \/ CmdStart(1, MaxOverlayCmds, OverlayArgs, {""}, {"dev"})
  \/ CmdStop(1, MaxOverlayCmds, OverlayNames)
  \/ CmdList(1, MaxOverlayCmds)
  \/ start_tailscale_funnel(1, DefaultFunnelPort)
  \/ SaveStep(1)

SpecOverlay == Init /\ [][NextOverlay]_vars

\* SpecQuery: the commands that only report.
NextQuery ==
  \/ CmdDetect(1, MaxQueryCmds)
  \/ CmdFindPort(1, MaxQueryCmds)
  \/ FindPortScan(1, BusyOffsets)

SpecQuery == Init /\ [][NextQuery]_vars

\* SpecPorts: two shells run find-port, one after the other or overlapping.
NextPorts == \E i \in Invs : CmdFindPort(i, MaxPortCmds) \/ FindPortScan(i, NearOffsets)

SpecPorts == Init /\ [][NextPorts]_vars

(***************************************************************************)
(* Properties.                                                             *)
(***************************************************************************)
\* the invocation before and after a step
Cur == inv[1]
Nxt == inv'[1]

\* the step ends a run of command cmd
Ends(cmd) == Nxt.pc = "done" /\ Nxt.cmd = cmd /\ Nxt # Cur

\* C1: after a start that succeeded and a stop of the same name right after
\* it, the state directory holds no record file for the name, whatever the
\* backend and the name.
C1_StartThenStopLeavesNoRecord ==
  (Cur.pc = "done" /\ Cur.cmd = "stop" /\ Cur.prev.cmd = "start"
     /\ Cur.prev.rc = 0 /\ Cur.prev.name = Cur.name)
    => records[Cur.name] = NoFile

\* C2: a stop of a name that has no record file exits 0 and leaves the record
\* files, the configuration files, the funnel settings and the processes (and
\* the logs and DNS routes) as they were, every time it is run.
C2_StopAbsentIsNoOp ==
  [][\A n \in FileNames :
       (Ends("stop") /\ Nxt.name = n /\ records[n] = NoFile)
         => /\ Nxt.rc = 0
            /\ UNCHANGED <<records, config, logs, funnels, dns, procs>>]_vars

C2_Witness ==
  /\ Cur.pc = "done" /\ Cur.cmd = "stop" /\ ~Cur.had /\ Cur.rc = 0
  /\ \E n \in FileNames : records[n] # NoFile
  /\ \E p \in Pids : procs[p] # NoProc

\* C3: find-port prints the lowest port of base..base+99 that neither the
\* socket table nor lsof shows in use and exits 0; when each of the 100 ports
\* is shown in use by one of the two, it prints no port and exits non-zero.
C3_LowestFreePort ==
  (Cur.pc = "done" /\ Cur.cmd = "find-port") =>
    LET base == Cur.input[1]
        free == {q \in base..(base + 99) :
                   q \notin Cur.input[2] /\ q \notin Cur.input[3]}
    IN  IF free = {}
        THEN Cur.rc # 0 /\ Cur.out = <<>>
        ELSE /\ Cur.rc = 0
             /\ Cur.out = <<CHOOSE q \in free : \A r \in free : q <= r>>

C3_Witness ==
  /\ Cur.pc = "done" /\ Cur.cmd = "find-port" /\ Cur.rc = 0
  /\ Cur.input[1] \notin Cur.input[2] /\ Cur.input[1] \in Cur.input[3]
  /\ Cur.out[1] > Cur.input[1] + 1

\* C4: the method detect recommends is the routed one whenever cloudflared is
\* authenticated and a domain is set, else the overlay one whenever the
\* overlay client is ready, else the quick one, for every status.
C4_RecommendedPriority ==
  (Cur.pc = "done" /\ Cur.cmd = "detect") =>
    LET r == Cur.out[1] IN
    /\ Cur.rc = 0
    /\ r.recommended =
         IF r.cloudflare.status = "authenticated" /\ r.cloudflare.domain # ""
         THEN "cloudflare_named"
         ELSE IF r.tailscale.status = "ready" THEN "tailscale"
         ELSE "cloudflare_quick"

C4_Witness ==
  /\ Cur.pc = "done" /\ Cur.cmd = "detect"
  /\ Cur.out[1].cloudflare.status = "authenticated"
  /\ Cur.out[1].cloudflare.domain # ""
  /\ Cur.out[1].tailscale.status = "ready"
  /\ Cur.out[1].recommended = "cloudflare_named"

\* the rules of a configuration for hostname
RulesFor(cfg, hostname) ==
  SelectSeq(cfg.ingress, LAMBDA r : HasHostname(r, hostname))

\* C5: no configuration file ever holds two rules for one hostname, and once
\* a routed start has written the file it holds exactly one rule for the
\* hostname of the start, to the port of that start.
C5_OneRulePerHostname ==
  /\ \A t \in AllTunnels : config[t] # NoFile =>
       \A k \in 1..Len(config[t].ingress) :
         "hostname" \in DOMAIN config[t].ingress[k] =>
           Len(RulesFor(config[t], config[t].ingress[k].hostname)) = 1
  /\ (Cur.cmd = "start" /\ Launcher(Cur.method) = "named"
        /\ (Cur.pc \in {"n_restart", "n_spawn", "n_check", "save", "save2"}
              \/ (Cur.pc = "done" /\ Cur.rc = 0)))
       => /\ config[Cur.tunnel] # NoFile
          /\ RulesFor(config[Cur.tunnel], Cur.hostname)
               = <<[hostname |-> Cur.hostname,
                    service |-> "http://localhost:" \o Cur.port]>>

C5_Witness ==
  /\ Cur.pc = "done" /\ Cur.cmd = "start" /\ Cur.rc = 0
  /\ Launcher(Cur.method) = "named"
  /\ Cur.prev.cmd = "start" /\ Cur.prev.rc = 0 /\ Cur.prev.name = Cur.name
  /\ Cur.prev.tunnel = Cur.tunnel /\ Cur.prev.port # Cur.port
  /\ Len(config[Cur.tunnel].ingress) >= 2

\* the live processes that run tunnel resource t
Serving(t) ==
  {p \in Pids : procs[p] # NoProc /\ procs[p].kind = "named" /\ procs[p].arg = t}

\* C6: a routed start has ended the process that serves its tunnel resource
\* when it comes to spawn the new one, and never do two live processes serve
\* one tunnel resource.
C6_OneProcessPerTunnel ==
  /\ \A t \in AllTunnels : Cardinality(Serving(t)) <= 1
  /\ (Cur.cmd = "start" /\ Cur.pc = "n_spawn") => Serving(Cur.tunnel) = {}

\* C7: when the quick launcher fails, the process it spawned is gone; when it
\* succeeds, it has not touched that process and the record holds its pid.
C7_QuickNoOrphan ==
  [][/\ (Ends("start") /\ Launcher(Nxt.method) = "quick" /\ Nxt.rc # 0)
          => Nxt.pid = nextPid - 1 /\ procs'[Nxt.pid] = NoProc
     /\ (Ends("start") /\ Launcher(Nxt.method) = "quick" /\ Nxt.rc = 0)
          => /\ Nxt.pid = nextPid - 1
             /\ procs' = procs
             /\ records'[Nxt.name] # NoFile
             /\ records'[Nxt.name].pid = Nxt.pid
     /\ (Cur.pc \in {"q_poll", "save", "save2"} /\ Nxt # Cur
           /\ ~(Nxt.pc = "done" /\ Nxt.rc # 0))
          => procs' = procs]_vars

C7_Witness ==
  /\ Cur.pc = "done" /\ Cur.cmd = "start" /\ Launcher(Cur.method) = "quick"
  /\ Cur.rc # 0 /\ Cur.pid \in Pids /\ procs[Cur.pid] = NoProc
  /\ logs[Cur.name] = LogFile(<<>>)

\* C8: during a start the record files change only in the write that ends a
\* launch, and that write is reached only from a launcher that saw its
\* success (the funnel set, a url in the log, the spawned process alive); a
\* start that does not end in that write exits non-zero with the record files
\* as they were when it began, and one that does exits 0 with its record.
C8_RecordOnlyOnSuccess ==
  [][/\ (records' # records /\ Nxt.cmd = "start")
          => Cur.pc \in {"save", "save2"}
     /\ (Nxt.pc = "save" /\ Cur.pc # "save")
          => \/ Cur.pc = "ts" /\ funnels'[DefaultFunnelPort] = Cur.port
             \/ /\ Cur.pc = "q_poll" /\ logs[Cur.name] # NoFile
                /\ \E k \in 1..Len(logs[Cur.name].lines) :
                     logs[Cur.name].lines[k] = Nxt.url
             \/ Cur.pc = "n_check" /\ procs[Cur.pid] # NoProc
     /\ (Ends("start") /\ Cur.pc # "save2")
          => Nxt.rc # 0 /\ records' = Nxt.recs0
     /\ (Ends("start") /\ Cur.pc = "save2")
          => /\ Nxt.rc = 0
             /\ records' = [Nxt.recs0 EXCEPT ![Nxt.name] = Cur.content]
             /\ Cur.content \notin {NoFile, EmptyFile}]_vars

C8_Witness ==
  /\ Cur.pc = "done" /\ Cur.cmd = "start" /\ Cur.rc # 0
  /\ Launcher(Cur.method) = "named" /\ Cur.pid \in Pids
  /\ records = Cur.recs0
  /\ \E n \in FileNames : records[n] # NoFile

\* C9: a stop of a name that has a record file ends with the file gone and
\* exit 0, whatever the teardown did and whatever the file holds.
C9_StopDeletesRecord ==
  (Cur.pc = "done" /\ Cur.cmd = "stop" /\ Cur.had)
    => records[Cur.name] = NoFile /\ Cur.rc = 0

\* C10: stop-all exits 0 and leaves no record file, whatever the state before
\* it and whether or not the funnels and the processes could be ended.
C10_StopAllClearsStore ==
  (Cur.pc = "done" /\ Cur.cmd = "stop-all")
    => Cur.rc = 0 /\ \A n \in FileNames : records[n] = NoFile

\* the record stop found for its name
Stopped == Cur.recs0[Cur.name]

\* C11: after a stop of a name whose record is of the routed method, the
\* configuration file of the record's tunnel resource holds no rule for the
\* record's hostname.
C11_StopRemovesRule ==
  (Cur.pc = "done" /\ Cur.cmd = "stop" /\ Cur.had /\ Cur.rc = 0
     /\ Cur.method = "cloudflare_named")
    => \/ config[Stopped.tunnel_name] = NoFile
       \/ RulesFor(config[Stopped.tunnel_name], Stopped.hostname) = <<>>

\* the hostnames the rules of a configuration file are for
HostsOf(cfg) ==
  IF cfg = NoFile THEN {}
  ELSE {cfg.ingress[k].hostname :
          k \in {j \in 1..Len(cfg.ingress) : "hostname" \in DOMAIN cfg.ingress[j]}}

\* C12: a stop of a name whose record is of the routed method ends no
\* process, leaves the rules of every other hostname in every configuration
\* file as they were, and leaves the record file of every other name as it
\* was.
C12_StopRoutedFrame ==
  [][\A n \in FileNames :
       (Ends("stop") /\ Nxt.name = n /\ records[n] # NoFile
          /\ JqParses(records[n])
          /\ JqField(records[n], "method") = "cloudflare_named")
         => /\ procs' = procs
            /\ \A t \in AllTunnels :
                 \A h \in (HostsOf(config[t]) \cup HostsOf(config'[t]))
                            \ {records[n].hostname} :
                   RulesFor(config'[t], h) = RulesFor(config[t], h)
            /\ \A m \in FileNames \ {n} : records'[m] = records[m]]_vars

C12_Witness ==
  /\ Cur.pc = "done" /\ Cur.cmd = "stop" /\ Cur.had /\ Cur.rc = 0
  /\ Cur.method = "cloudflare_named"
  /\ \E p \in Pids :
       /\ procs[p] # NoProc /\ procs[p].kind = "named"
       /\ procs[p].arg = Stopped.tunnel_name
  /\ HostsOf(config[Stopped.tunnel_name]) \ {Stopped.hostname} # {}
  /\ \E m \in FileNames \ {Cur.name} : records[m] # NoFile

\* C13: what a stop reads as the record of its name is never the empty file
\* that a start in another invocation has opened and not yet written.
C13_ReaderSeesWholeRecord ==
  \A i \in Invs :
    (inv[i].pc = "done" /\ inv[i].cmd = "stop" /\ inv[i].had)
      => inv[i].recs0[inv[i].name] # EmptyFile

\* invocation i is in the look-up, kill and spawn of the routed launcher
InRestart(i) ==
  inv[i].cmd = "start" /\ inv[i].pc \in {"n_restart", "n_spawn", "n_check"}

\* C14: two starts of one name are never both in the look-up, kill and spawn
\* of the routed launcher.
C14_SameNameSerialized ==
  \A i \in Invs : \A j \in Invs \ {i} :
    ~(InRestart(i) /\ InRestart(j) /\ inv[i].name = inv[j].name)

\* invocation i is a routed start that has ended well
RoutedDone(i) ==
  /\ inv[i].pc = "done" /\ inv[i].cmd = "start" /\ inv[i].rc = 0
  /\ Launcher(inv[i].method) = "named"

\* the configuration file was not rebuilt by a run without yq (lines 292-299
\* leave out the catch-all rule)
NotRebuilt(cfg) ==
  cfg # NoFile /\ cfg.ingress # <<>> /\ cfg.ingress[Len(cfg.ingress)] = CatchAll

\* C15: when two routed starts of two names on one tunnel resource have run
\* at once, with yq at hand, and both have ended well, the configuration
\* file holds a rule for either hostname, either record is there, and not
\* two processes serve the resource.
C15_DifferentNamesIndependent ==
  \A i \in Invs : \A j \in Invs \ {i} :
    (RoutedDone(i) /\ RoutedDone(j) /\ inv[j].conc
       /\ inv[i].name # inv[j].name /\ inv[i].tunnel = inv[j].tunnel
       /\ NotRebuilt(config[inv[i].tunnel]))
      => /\ RulesFor(config[inv[i].tunnel], inv[i].hostname) # <<>>
         /\ RulesFor(config[inv[i].tunnel], inv[j].hostname) # <<>>
         /\ records[inv[i].name] # NoFile
         /\ records[inv[j].name] # NoFile
         /\ Cardinality(Serving(inv[i].tunnel)) <= 1

\* the live processes of the quick launcher started for name n
QuickServing(n) ==
  {p \in Pids : procs[p] # NoProc /\ procs[p].kind = "quick" /\ procs[p].arg = n}

\* C16: after two quick starts of one name in a row that both ended well, no
\* process of that name is running but the one the second start spawned.
C16_StartEndsEarlierProcess ==
  (Cur.pc = "done" /\ Cur.cmd = "start" /\ Cur.rc = 0
     /\ Launcher(Cur.method) = "quick"
     /\ Cur.prev.cmd = "start" /\ Cur.prev.rc = 0
     /\ Launcher(Cur.prev.method) = "quick" /\ Cur.prev.name = Cur.name)
    => QuickServing(Cur.name) \subseteq {Cur.pid}

\* the command line of start gives a port and no name
NoNameGiven(args) ==
  \/ Len(args) = 1 /\ ~IsMethodOpt(args[1])
  \/ Len(args) = 2 /\ ~IsMethodOpt(args[1]) /\ IsMethodOpt(args[2])

\* C17: a start given a port and no name, with a --method option or without,
\* that ends well has run under the name app-<port>.
C17_DefaultNameFromPort ==
  (Cur.pc = "done" /\ Cur.cmd = "start" /\ Cur.rc = 0
     /\ NoNameGiven(Cur.input[1]))
    => Cur.name = "app-" \o Cur.input[1][1]

\* the method of the last --method option of the command line, "" for none
OptionOf(args) ==
  LET ks == {k \in 1..Len(args) : IsMethodOpt(args[k])}
  IN  IF ks = {} THEN ""
      ELSE MethodOf(args[CHOOSE k \in ks : \A l \in ks : l <= k])

\* the launcher start is to run: that of the option, or else that of the
\* recommendation
WantedLauncher(v) ==
  Launcher(IF OptionOf(v.input[1]) # "" THEN OptionOf(v.input[1])
           ELSE v.input[2])

\* the method a launcher writes into its record
RecordMethod(launcher) ==
  IF launcher = "ts" THEN "tailscale"
  ELSE IF launcher = "named" THEN "cloudflare_named"
  ELSE "cloudflare_quick"

\* C18: a start given a port runs the launcher of its --method option when it
\* has one, whatever the machine would recommend, and else the launcher of
\* the method recommended; when it ends well the record of its name is there
\* and holds that name and the method of that launcher.
C18_LauncherOfRecommendation ==
  [][/\ (ncmds' = ncmds + 1 /\ Nxt.cmd = "start" /\ Nxt.port # "")
          => IF WantedLauncher(Nxt) = ""
             THEN Nxt.pc = "done" /\ Nxt.rc # 0
             ELSE Nxt.pc = WantedLauncher(Nxt)
     /\ (Ends("start") /\ Nxt.rc = 0)
          => /\ records'[Nxt.name] \notin {NoFile, EmptyFile}
             /\ records'[Nxt.name].name = Nxt.name
             /\ records'[Nxt.name].method = RecordMethod(WantedLauncher(Nxt))
             /\ Len(Nxt.input[1]) >= 2 /\ ~IsMethodOpt(Nxt.input[1][2])
                  => Nxt.name = Nxt.input[1][2]]_vars

C18_Witness ==
  /\ Cur.pc = "done" /\ Cur.cmd = "start" /\ Cur.rc = 0
  /\ Cur.input[1] = <<"3000", "web">> /\ Cur.domain = ""
  /\ Cur.input[2] = "cloudflare_quick"
  /\ records["web"] # NoFile /\ records["web"].method = "cloudflare_quick"

\* C19: every configuration file ends with the catch-all rule, and each of
\* its other rules sends a hostname to http://localhost:<port>.
C19_ConfigEndsWithCatchAll ==
  \A t \in AllTunnels : config[t] # NoFile =>
    LET rules == config[t].ingress IN
    /\ rules # <<>>
    /\ rules[Len(rules)] = [service |-> "http_status:404"]
    /\ \A k \in 1..(Len(rules) - 1) :
         /\ DOMAIN rules[k] = {"hostname", "service"}
         /\ \E p \in AllPorts : rules[k].service = "http://localhost:" \o p

\* C20: after a routed start of one name and then one of another name on the
\* same tunnel resource, both ended well, the configuration file holds a rule
\* for the hostname of either.
C20_OtherHostnamesKept ==
  (Cur.pc = "done" /\ Cur.cmd = "start" /\ Cur.rc = 0
     /\ Launcher(Cur.method) = "named"
     /\ Cur.prev.cmd = "start" /\ Cur.prev.rc = 0
     /\ Launcher(Cur.prev.method) = "named"
     /\ Cur.prev.tunnel = Cur.tunnel /\ Cur.prev.name # Cur.name)
    => /\ RulesFor(config[Cur.tunnel], Cur.hostname) # <<>>
       /\ RulesFor(config[Cur.tunnel],
                   Hostname(Cur.prev.name, MachineName, Cur.domain)) # <<>>

\* the records of the overlay launcher and their names
OverlayRecs ==
  {n \in FileNames : records[n] \notin {NoFile, EmptyFile}
                       /\ records[n].method = "tailscale"}

\* C21: two records of the overlay launcher under two names never hold the
\* same funnel port, nor the same url.
C21_DistinctFunnelPorts ==
  \A n \in OverlayRecs : \A m \in OverlayRecs \ {n} :
    /\ records[n].funnel_port # records[m].funnel_port
    /\ records[n].url # records[m].url

\* what list is to print for a record: its name, method, port and url as
\* they were written
Persisted(c) ==
  [name |-> c.name, method |-> c.method, local_port |-> c.local_port,
   url |-> c.url]

\* C22: list ends with status 0 having printed one entry for each record
\* file, with the name, method, local port and url written in it.
C22_ListReportsEveryRecord ==
  (Cur.pc = "done" /\ Cur.cmd = "list")
    => LET have == {n \in FileNames : records[n] # NoFile} IN
       /\ Cur.rc = 0
       /\ Len(Cur.out) = Cardinality(have)
       /\ {Cur.out[k] : k \in 1..Len(Cur.out)}
            = {Persisted(records[n]) : n \in have}

\* C28: after a stop of a name of the overlay launcher, the funnel port of
\* every record of that launcher still there is being served.
C28_StopKeepsOtherFunnels ==
  (Cur.pc = "done" /\ Cur.cmd = "stop" /\ Cur.had /\ Cur.rc = 0
     /\ Cur.method = "tailscale")
    => \A m \in OverlayRecs : funnels[records[m].funnel_port] # "off"

\* C23: the quick launcher always ends: the loop of lines 202-211 makes at
\* most max_wait (30) passes, one second apart, so the count of waits never
\* passes 30, and a launcher that has begun reaches its end, whether the
\* process prints a url, stays silent or has ended.
C23_QuickTerminates ==
  /\ [](Cur.waited <= max_wait)
  /\ (Cur.pc \in {"quick", "q_poll"}) ~> (Cur.pc = "done")

\* the 30th wait is over, the process is running and has printed no url
C23_Witness ==
  /\ Cur.pc = "q_poll" /\ Cur.waited = max_wait
  /\ procs[Cur.pid] # NoProc /\ PollUrl(logs[Cur.name]) = ""

\* C26: the url a quick start returns and records is the url printed by the
\* process that this same invocation put in the background, also when a log
\* of an earlier run of the name is still there.
C26_UrlOfOwnProcess ==
  (Cur.pc = "done" /\ Cur.cmd = "start" /\ Cur.method = "cloudflare_quick" /\ Cur.rc = 0)
    => Cur.url = QuickUrl(Cur.pid)

\* C24: a routed start that finds no credentials file of the tunnel fails
\* before it has made a DNS route, written the configuration or killed or
\* started a process: the step that ends with "Credentials file not found"
\* leaves the routes, the configuration files and the processes as they were.
C24_CredsCheckedFirst ==
  [][(Cur.pc = "named" /\ Nxt.pc = "done" /\ Nxt.err = "creds")
       => (dns' = dns /\ config' = config /\ procs' = procs)]_vars

\* the find-port runs that are over
FoundBy(i) == inv[i].pc = "done" /\ inv[i].cmd = "find-port"

C27_FailedStartKeepsOld ==
  [][(Cur.pc = "n_check" /\ Nxt.pc = "done" /\ Nxt.err = "launch"
        /\ Cur.live0)
       => /\ Cur.tunnel \notin Cur.killed
          /\ config[Cur.tunnel] = Cur.cfg0]_vars

\* the processes that run exactly this named tunnel
RunsTunnel(ps, tunnel) == {q \in Pids : ps[q] = NamedProc(tunnel)}

\* C29: when the search of the restart step finds two or more processes that
\* run the tunnel, the step ends every one of them, so that the process
\* started next is the only one that runs the tunnel.
C29_RestartEndsEveryFound ==
  [][(Cur.pc = "n_restart" /\ Nxt.pc = "n_spawn"
        /\ Cardinality(Pgrep(procs, Cur.tunnel)) >= 2)
       => RunsTunnel(procs', Cur.tunnel) = {}]_vars

\* C30: the restart step ends no process that runs another named tunnel, also
\* not one whose name holds the name of this tunnel (dev2 for dev).
C30_RestartSparesOtherTunnels ==
  [][(Cur.pc = "n_restart" /\ Nxt.pc = "n_spawn")
       => \A q \in Pids :
            (procs[q] # NoProc /\ procs[q].arg # Cur.tunnel) => procs'[q] = procs[q]]_vars

====
